---- MODULE Spec2Model ----
(***************************************************************************)
(* Model of the filename sanitizer of audio_pipeline.py.                   *)
(*                                                                         *)
(* A string is a sequence of characters; a character is a one-token        *)
(* string.  ASCII characters stand for themselves, non-ASCII code points   *)
(* are written "U+XXXX".  The sanitizer is a pure function, so it is an    *)
(* operator; the state machine draws an input, calls the sanitizer on it   *)
(* and calls it again on its own output (and likewise for the per-segment  *)
(* helper).                                                                *)
(***************************************************************************)
EXTENDS Integers, Sequences, FiniteSets, TLC

VARIABLES filename, pc, result, again

(* SupabaseUploader.upload_audio_to_supabase: its arguments, its locals,   *)
(* the calls it has made to the storage backend and what it returned.      *)
VARIABLES file_name, file_exists, upc, sanitized_file_name, file_content,
          uploads, lookups, ret

upvars == <<file_name, file_exists, upc, sanitized_file_name, file_content,
            uploads, lookups, ret>>

sanvars == <<filename, pc, result, again>>

(* SupabaseUploader.test_connection: its position, what list_buckets       *)
(* answered, the create_bucket calls it made and what it returned.         *)
VARIABLES cpc, listed, create_calls, conn_ret

connvars == <<cpc, listed, create_calls, conn_ret>>

(* The module-level upload_audio_to_supabase: the two environment          *)
(* variables, its arguments, its position, the calls it has made and how   *)
(* it ended.                                                               *)
VARIABLES env_url, env_key, arg_path, arg_name, fpc, fn_calls, fn_ret

fnvars == <<env_url, env_key, arg_path, arg_name, fpc, fn_calls, fn_ret>>

(* Module3_SupabaseStorage.process: whether the module has an uploader,    *)
(* its arguments, the files that exist, its position and loop index, its   *)
(* list of results, the uploader calls it has made, the metadata records   *)
(* written and how it ended.                                               *)
VARIABLES has_uploader, original_file, segments, files, m3pc, seg_i,
          uploaded_urls, m3_calls, metadata, m3_ret

m3vars == <<has_uploader, original_file, segments, files, m3pc, seg_i,
            uploaded_urls, m3_calls, metadata, m3_ret>>

(* AudioTranscriptPipeline.process_audio: its position, the list Module 1   *)
(* is building, its local variable segments, the stages run so far, the    *)
(* files Module 1 has created, the exception on its way out, the cleanup's *)
(* loop index and how the method ended.                                    *)
VARIABLES papc, m1_segments, pa_segments, pa_stages, created, pa_pending,
          clean_i, pa_ret

pavars == <<papc, m1_segments, pa_segments, pa_stages, created, pa_pending,
            clean_i, pa_ret>>

(* everything outside the sanitizer and the uploader's upload method *)
extvars == <<connvars, fnvars, m3vars, pavars>>

vars == <<sanvars, upvars, extvars>>

(* Longest input string drawn by Init. *)
MaxLen == 5

(***************************************************************************)
(* Characters                                                              *)
(***************************************************************************)
Space == " "
aAcute == "U+00E1"
AAcute == "U+00C1"
CombAcute == "U+0301"
CombCaron == "U+030C"
DStroke == "U+0110"
dStroke == "U+0111"
DCaron == "U+010E"
dCaron == "U+010F"
Emoji == "U+1F3B5"

Lower == {"a", "b", "c", "d", "e", "f", "g", "h", "i", "j", "k", "l", "m",
          "n", "o", "p", "q", "r", "s", "t", "u", "v", "w", "x", "y", "z"}

Upper == {"A", "B", "C", "D", "E", "F", "G", "H", "I", "J", "K", "L", "M",
          "N", "O", "P", "Q", "R", "S", "T", "U", "V", "W", "X", "Y", "Z"}

Digits == {"0", "1", "2", "3", "4", "5", "6", "7", "8", "9"}

(* The characters the input strings are drawn from: a kept letter, the     *)
(* three structural characters, two unsafe characters (a space and an      *)
(* emoji), a precomposed letter with a tone mark, a bare combining mark    *)
(* and a mapped Vietnamese letter.                                         *)
Alphabet == {"a", ".", "_", "/", Space, Emoji, aAcute, CombAcute, DStroke}

Inputs == UNION {[1..n -> Alphabet] : n \in 0..MaxLen}

(* The characters of speaker names: plain and accented letters of both     *)
(* cases, the four letters of vietnamese_map, and a space.                 *)
LetterAlphabet == {"a", aAcute, AAcute, DStroke, dStroke, DCaron, dCaron,
                   Space}

LetterInputs == UNION {[1..n -> LetterAlphabet] : n \in 0..MaxLen}

(***************************************************************************)
(* String helpers (str.split, str.rsplit, str.join, str.strip, re.sub)     *)
(***************************************************************************)
RECURSIVE SplitAcc(_, _, _)
SplitAcc(s, i, cur) ==
    IF i > Len(s) THEN <<cur>>
    ELSE IF s[i] = "/" THEN <<cur>> \o SplitAcc(s, i + 1, <<>>)
    ELSE SplitAcc(s, i + 1, Append(cur, s[i]))

(* filename.split('/') *)
SplitSlash(s) == SplitAcc(s, 1, <<>>)

RECURSIVE JoinSlash(_)
(* '/'.join(parts) *)
JoinSlash(parts) ==
    IF Len(parts) = 0 THEN <<>>
    ELSE IF Len(parts) = 1 THEN parts[1]
    ELSE parts[1] \o <<"/">> \o JoinSlash(Tail(parts))

HasDot(part) == \E i \in 1..Len(part) : part[i] = "."

LastDot(part) == CHOOSE i \in 1..Len(part) :
    part[i] = "." /\ \A j \in (i + 1)..Len(part) : part[j] # "."

(* part.rsplit('.', 1)[0] and [1], for a part that contains a dot *)
RsplitName(part) == SubSeq(part, 1, LastDot(part) - 1)

RsplitExt(part) == SubSeq(part, LastDot(part) + 1, Len(part))

RECURSIVE CollapseRuns(_, _)
(* re.sub(c + '+', c, s): every run of c becomes one c *)
CollapseRuns(s, c) ==
    IF Len(s) <= 1 THEN s
    ELSE IF s[1] = c /\ s[2] = c THEN CollapseRuns(Tail(s), c)
    ELSE <<s[1]>> \o CollapseRuns(Tail(s), c)

RECURSIVE LStrip(_, _)
LStrip(s, set) ==
    IF Len(s) > 0 /\ s[1] \in set THEN LStrip(Tail(s), set) ELSE s

RECURSIVE RStrip(_, _)
RStrip(s, set) ==
    IF Len(s) > 0 /\ s[Len(s)] \in set
    THEN RStrip(SubSeq(s, 1, Len(s) - 1), set) ELSE s

(* s.strip(chars) *)
Strip(s, set) == RStrip(LStrip(s, set), set)

RECURSIVE Flatten(_)
Flatten(ss) == IF Len(ss) = 0 THEN <<>> ELSE ss[1] \o Flatten(Tail(ss))

(***************************************************************************)
(* _sanitize_part                                                          *)
(***************************************************************************)
vietnamese_map == (DStroke :> "D") @@ (dStroke :> "d") @@
                  (DCaron :> "D") @@ (dCaron :> "d")

(* the replacement loop left out *)
ReplaceVietnamese_None(part) == part

(* the loop of part.replace(vn_char, latin_char) *)
ReplaceVietnamese(part) ==
    [i \in 1..Len(part) |->
        IF part[i] \in DOMAIN vietnamese_map
        THEN vietnamese_map[part[i]] ELSE part[i]]

(* canonical decomposition of one code point *)
Decompose(c) ==
    IF c = aAcute THEN <<"a", CombAcute>>
    ELSE IF c = AAcute THEN <<"A", CombAcute>>
    ELSE IF c = DCaron THEN <<"D", CombCaron>>
    ELSE IF c = dCaron THEN <<"d", CombCaron>>
    ELSE <<c>>

(* the normalisation left out *)
NFD_None(part) == part

(* unicodedata.normalize('NFD', part) *)
NFD(part) == Flatten([i \in 1..Len(part) |-> Decompose(part[i])])

(* unicodedata.category(c) == 'Mn' *)
IsMn(c) == c \in {CombAcute, CombCaron}

(* ''.join(c for c in normalized if unicodedata.category(c) != 'Mn') *)
RemoveMn(s) == SelectSeq(s, LAMBDA c : ~IsMn(c))

(* the character class [a-zA-Z0-9._-] *)
NameSafe == Lower \cup Upper \cup Digits \cup {".", "_", "-"}

(* re.sub(r'[^a-zA-Z0-9._-]', '_', ascii_part) *)
ReplaceUnsafe(s) ==
    [i \in 1..Len(s) |-> IF s[i] \in NameSafe THEN s[i] ELSE "_"]

(* the collapse of '_' runs left out *)
CollapseUnderscores_None(s) == s

(* re.sub(r'_+', '_', sanitized_part) *)
CollapseUnderscores(s) == CollapseRuns(s, "_")

(* strip that forgets the dots: sanitized_part.strip('_') *)
StripEdges_UnderscoreOnly(s) == Strip(s, {"_"})

(* strip that removes at most one character at each end *)
StripEdges_Once(s) ==
    LET l == IF Len(s) > 0 /\ s[1] \in {"_", "."} THEN Tail(s) ELSE s
    IN  IF Len(l) > 0 /\ l[Len(l)] \in {"_", "."}
        THEN SubSeq(l, 1, Len(l) - 1) ELSE l

(* sanitized_part.strip('_.') *)
StripEdges(s) == Strip(s, {"_", "."})

(* runs of '_' collapsed before the unsafe characters are replaced *)
_sanitize_part_CollapseFirst(part) ==
    IF part = <<>> THEN <<>>
    ELSE StripEdges(ReplaceUnsafe(CollapseUnderscores(
             RemoveMn(NFD(ReplaceVietnamese(part))))))

_sanitize_part(part) ==
    IF part = <<>> THEN <<>>
    ELSE StripEdges(CollapseUnderscores(ReplaceUnsafe(
             RemoveMn(NFD(ReplaceVietnamese(part))))))

(***************************************************************************)
(* sanitize_filename_for_supabase                                          *)
(***************************************************************************)
(* has_extension without the startswith('.') test *)
has_extension_LeadingDotAllowed(part, is_last_part) ==
    /\ is_last_part
    /\ HasDot(part)
    /\ part[Len(part)] # "."
    /\ RsplitExt(part) # <<>>

(* has_extension without the is_last_part test *)
has_extension_AnyPart(part, is_last_part) ==
    /\ HasDot(part)
    /\ part[1] # "."
    /\ part[Len(part)] # "."
    /\ RsplitExt(part) # <<>>

(* has_extension, lines 53-57 *)
has_extension(part, is_last_part) ==
    /\ is_last_part
    /\ HasDot(part)
    /\ part[1] # "."
    /\ part[Len(part)] # "."
    /\ RsplitExt(part) # <<>>

FileStem == <<"f", "i", "l", "e">>

(* no fallback stem: a name that empties out drops the segment *)
SanitizeWithExtension_NoFallback(part) ==
    LET name_part == RsplitName(part)
        ext_part == RsplitExt(part)
        processed_name == _sanitize_part(name_part)
    IN  IF processed_name # <<>>
        THEN processed_name \o <<".">> \o ext_part
        ELSE <<>>

(* the extension sanitized like the name *)
SanitizeWithExtension_CleanExt(part) ==
    LET name_part == RsplitName(part)
        ext_part == _sanitize_part(RsplitExt(part))
        processed_name == _sanitize_part(name_part)
    IN  IF processed_name # <<>>
        THEN processed_name \o <<".">> \o ext_part
        ELSE FileStem \o <<".">> \o ext_part

(* the branch taken when has_extension holds, lines 60-68 *)
SanitizeWithExtension(part) ==
    LET name_part == RsplitName(part)
        ext_part == RsplitExt(part)
        processed_name == _sanitize_part(name_part)
    IN  IF processed_name # <<>>
        THEN processed_name \o <<".">> \o ext_part
        ELSE FileStem \o <<".">> \o ext_part

(* one iteration of the loop for a non-empty part, lines 49-71 *)
SanitizeSegment(part, is_last_part) ==
    IF has_extension(part, is_last_part)
    THEN SanitizeWithExtension(part)
    ELSE _sanitize_part(part)

RECURSIVE SanitizeLoop_NoSkip(_, _, _)
(* the loop without the two empty-part tests *)
SanitizeLoop_NoSkip(path_parts, i, sanitized_parts) ==
    IF i > Len(path_parts) THEN sanitized_parts
    ELSE SanitizeLoop_NoSkip(path_parts, i + 1,
             Append(sanitized_parts,
                    SanitizeSegment(path_parts[i], i = Len(path_parts))))

RECURSIVE SanitizeLoop(_, _, _)
(* the for loop over enumerate(path_parts), lines 45-75 *)
SanitizeLoop(path_parts, i, sanitized_parts) ==
    IF i > Len(path_parts) THEN sanitized_parts
    ELSE IF path_parts[i] = <<>>
    THEN SanitizeLoop(path_parts, i + 1, sanitized_parts)
    ELSE LET sanitized_part ==
                 SanitizeSegment(path_parts[i], i = Len(path_parts))
         IN  IF sanitized_part # <<>>
             THEN SanitizeLoop(path_parts, i + 1,
                               Append(sanitized_parts, sanitized_part))
             ELSE SanitizeLoop(path_parts, i + 1, sanitized_parts)

sanitize_filename_for_supabase(s) ==
    IF s = <<>> THEN <<>>
    ELSE CollapseRuns(JoinSlash(SanitizeLoop(SplitSlash(s), 1, <<>>)), "/")

(***************************************************************************)
(* SupabaseUploader: helpers                                               *)
(***************************************************************************)
LowerSeq == <<"a", "b", "c", "d", "e", "f", "g", "h", "i", "j", "k", "l", "m",
              "n", "o", "p", "q", "r", "s", "t", "u", "v", "w", "x", "y", "z">>

UpperSeq == <<"A", "B", "C", "D", "E", "F", "G", "H", "I", "J", "K", "L", "M",
              "N", "O", "P", "Q", "R", "S", "T", "U", "V", "W", "X", "Y", "Z">>

(* str.lower() on the characters of the model *)
LowerChar(c) ==
    IF c \in Upper THEN LowerSeq[CHOOSE i \in 1..26 : UpperSeq[i] = c]
    ELSE IF c = AAcute THEN aAcute
    ELSE IF c = DStroke THEN dStroke
    ELSE IF c = DCaron THEN dCaron
    ELSE c

ToLower(s) == [i \in 1..Len(s) |-> LowerChar(s[i])]

(* needle in s *)
Contains(s, needle) ==
    \E i \in 0..(Len(s) - Len(needle)) :
        SubSeq(s, i + 1, i + Len(needle)) = needle

(* Path(file_name).name: the last component that is neither empty nor "." *)
PathName(s) ==
    LET comps == SelectSeq(SplitSlash(s),
                           LAMBDA c : c # <<>> /\ c # <<".">>)
    IN  IF Len(comps) = 0 THEN <<>> ELSE comps[Len(comps)]

(* Path(file_name).suffix: from the last dot of the name on, unless that   *)
(* dot is the first or the last character of the name                      *)
PathSuffix(s) ==
    LET name == PathName(s)
    IN  IF HasDot(name) /\ LastDot(name) > 1 /\ LastDot(name) < Len(name)
        THEN SubSeq(name, LastDot(name), Len(name))
        ELSE <<>>

SuffixWav == <<".", "w", "a", "v">>
SuffixMp3 == <<".", "m", "p", "3">>
SuffixM4a == <<".", "m", "4", "a">>
SuffixFlac == <<".", "f", "l", "a", "c">>
SuffixOgg == <<".", "o", "g", "g">>

DefaultContentType == "audio/mpeg"

(* the content_types dictionary, lines 264-270 *)
content_types ==
    (SuffixWav :> "audio/wav") @@ (SuffixMp3 :> "audio/mpeg") @@
    (SuffixM4a :> "audio/mp4") @@ (SuffixFlac :> "audio/flac") @@
    (SuffixOgg :> "audio/ogg")

(* lookup that forgets .lower() *)
_get_content_type_CaseSensitive(name) ==
    LET ext == PathSuffix(name)
    IN  IF ext \in DOMAIN content_types THEN content_types[ext]
        ELSE DefaultContentType

_get_content_type(name) ==
    LET ext == ToLower(PathSuffix(name))
    IN  IF ext \in DOMAIN content_types THEN content_types[ext]
        ELSE DefaultContentType

NeedleAlreadyExists ==
    <<"a", "l", "r", "e", "a", "d", "y", Space, "e", "x", "i", "s", "t",
      "s">>
NeedleDuplicate == <<"d", "u", "p", "l", "i", "c", "a", "t", "e">>

(* every error of the first upload taken for a duplicate *)
IsDuplicateError_AnyError(msg) == TRUE

(* the test of line 230 without .lower() on the message *)
IsDuplicateError_CaseSensitive(msg) ==
    \/ Contains(msg, NeedleAlreadyExists)
    \/ Contains(msg, NeedleDuplicate)

(* lines 227-230: "already exists" in error_msg or "duplicate" in error_msg *)
IsDuplicateError(msg) ==
    \/ Contains(ToLower(msg), NeedleAlreadyExists)
    \/ Contains(ToLower(msg), NeedleDuplicate)

(* the uploader's fields, set by __init__ *)
supabase_url == "https://project.supabase.co"

bucket_name == "audio_files"

None == [kind |-> "None"]

(* an exception whose message plays no part *)
Raised == [kind |-> "raise"]

(* a URL: a base, the route under it and the object key it ends with *)
Url(base, route, key) ==
    [kind |-> "url", base |-> base, route |-> route, key |-> key]

(* the f-string of lines 286 and 290 *)
FallbackUrl(key) ==
    Url(supabase_url, <<"/storage/v1/object/public/", bucket_name, "/">>, key)

(* the URLs a backend may hand out for a key *)
BackendUrls(key) == {Url("https://cdn-a.example", <<"/">>, key),
                     Url("https://cdn-b.example", <<"/">>, key)}

(* what get_public_url may answer: a string, an object with any of the     *)
(* attributes url and public_url, or an exception                          *)
UrlAnswers(key) ==
    {[kind |-> "str", value |-> u] : u \in BackendUrls(key)}
    \cup {[kind |-> "obj", attrs |-> a] :
             a \in UNION {[names -> BackendUrls(key)] :
                              names \in SUBSET {"url", "public_url"}}}
    \cup {[kind |-> "raise"]}

(* public_url looked at before url *)
PublicUrlOf_PublicUrlFirst(answer, key) ==
    IF answer.kind = "str" THEN answer.value
    ELSE IF answer.kind = "obj" /\ "public_url" \in DOMAIN answer.attrs
    THEN answer.attrs["public_url"]
    ELSE IF answer.kind = "obj" /\ "url" \in DOMAIN answer.attrs
    THEN answer.attrs["url"]
    ELSE FallbackUrl(key)

(* _get_public_url, lines 275-290, given the backend's answer *)
PublicUrlOf(answer, key) ==
    IF answer.kind = "str" THEN answer.value
    ELSE IF answer.kind = "obj" /\ "url" \in DOMAIN answer.attrs
    THEN answer.attrs["url"]
    ELSE IF answer.kind = "obj" /\ "public_url" \in DOMAIN answer.attrs
    THEN answer.attrs["public_url"]
    ELSE FallbackUrl(key)

(* the first upload call made with the raw name *)
UploadRequest_RawName(raw_name, key, content) ==
    [path |-> raw_name, file |-> content,
     file_options |-> ("content-type" :> _get_content_type(key))]

(* the arguments of the first upload call, lines 208-212 *)
UploadRequest(raw_name, key, content) ==
    [path |-> key, file |-> content,
     file_options |-> ("content-type" :> _get_content_type(key))]

(* success only for a response that has a path attribute *)
UploadSucceeded_NeedsPath(outcome) ==
    outcome.kind = "truthy" /\ outcome.has_path

(* lines 216-222: any truthy response counts as success *)
UploadSucceeded(outcome) == outcome.kind = "truthy"

(* the arguments of the upsert call, lines 234-241 *)
UpsertRequest(raw_name, key, content) ==
    [path |-> key, file |-> content,
     file_options |-> ("content-type" :> _get_content_type(key))
                      @@ ("upsert" :> TRUE)]

NameTestWav == <<"t", "e", "s", "t", ".", "w", "a", "v">>

NameSpacedMp3 == <<"a", Space, "b", ".", "m", "p", "3">>

NameFolderUpperWav == <<"x", "/", aAcute, ".", "W", "A", "V">>

NameM4a == <<"a", ".", "m", "4", "a">>

NameFlac == <<"a", ".", "f", "l", "a", "c">>

NameMixedOgg == <<"a", ".", "O", "g", "g">>

NameTxt == <<"a", ".", "t", "x", "t">>

NameNoSuffix == <<"a">>

NameDots == <<".", ".", ".">>

NameBlank == <<Space, Space>>

NameHiddenWav == <<".", "w", "a", "v">>

NameStemlessMp3 == <<"_", ".", "m", "p", "3">>

NameUnsafeExt == <<"a", ".", Space, "w", "a", "v">>

NameTrailingSlash == <<"a", ".", "o", "g", "g", "/">>

(* the file_name arguments the uploader is called with *)
UploadNames ==
    {NameTestWav, NameSpacedMp3, NameFolderUpperWav,
     NameM4a, NameFlac, NameMixedOgg,
     NameTxt, NameNoSuffix, NameDots,
     NameBlank, NameHiddenWav, NameStemlessMp3,
     NameUnsafeExt, NameTrailingSlash}

MsgFileExists ==
    <<"F", "i", "l", "e", Space, "a", "l", "r", "e", "a", "d", "y", Space,
      "e", "x", "i", "s", "t", "s">>

MsgDuplicateKey ==
    <<"D", "u", "p", "l", "i", "c", "a", "t", "e", Space, "k", "e", "y">>

MsgUpperExists ==
    <<"A", "L", "R", "E", "A", "D", "Y", Space, "E", "X", "I", "S", "T",
      "S">>

MsgTimeout == <<"t", "i", "m", "e", "o", "u", "t">>

MsgAlreadyGone ==
    <<"a", "l", "r", "e", "a", "d", "y", Space, "e", "x", "i", "s", "t">>

MsgEmptyResult ==
    <<"U", "p", "l", "o", "a", "d", Space, "r", "e", "t", "u", "r", "n", "e",
      "d", Space, "e", "m", "p", "t", "y", Space, "r", "e", "s", "u", "l", "t">>

(* the messages a failing storage call may raise *)
ErrorMessages ==
    {MsgFileExists, MsgDuplicateKey, MsgUpperExists, MsgTimeout,
     MsgAlreadyGone}

(* the contents of the local file *)
FileContents == {"bytes-1", "bytes-2"}

(* what an upload call may do: return a truthy response with or without a  *)
(* path attribute, return a falsy response, or raise                       *)
UploadOutcomes ==
    {[kind |-> "truthy", has_path |-> TRUE],
     [kind |-> "truthy", has_path |-> FALSE],
     [kind |-> "falsy"]}
    \cup {[kind |-> "raise", msg |-> m] : m \in ErrorMessages}

(***************************************************************************)
(* State machine                                                           *)
(***************************************************************************)
(* no uploader call in progress *)
UploaderIdle ==
    /\ file_name = <<>>
    /\ file_exists = FALSE
    /\ upc = "idle"
    /\ sanitized_file_name = <<>>
    /\ file_content = "unread"
    /\ uploads = <<>>
    /\ lookups = <<>>
    /\ ret = None

(* test_connection is not running *)
ConnectionIdle ==
    /\ cpc = "idle"
    /\ listed = None
    /\ create_calls = <<>>
    /\ conn_ret = "unset"

(* the module-level function is not running *)
FunctionIdle ==
    /\ env_url = None
    /\ env_key = None
    /\ arg_path = ""
    /\ arg_name = <<>>
    /\ fpc = "idle"
    /\ fn_calls = <<>>
    /\ fn_ret = None

(* Module3_SupabaseStorage.process is not running *)
StorageIdle ==
    /\ has_uploader = FALSE
    /\ original_file = <<>>
    /\ segments = <<>>
    /\ files = {}
    /\ m3pc = "idle"
    /\ seg_i = 0
    /\ uploaded_urls = <<>>
    /\ m3_calls = <<>>
    /\ metadata = <<>>
    /\ m3_ret = None

(* process_audio is not running *)
ProcessAudioIdle ==
    /\ papc = "idle"
    /\ m1_segments = <<>>
    /\ pa_segments = [bound |-> FALSE, value |-> <<>>]
    /\ pa_stages = <<>>
    /\ created = {}
    /\ pa_pending = None
    /\ clean_i = 0
    /\ pa_ret = None

Init ==
    /\ filename \in Inputs
    /\ pc = "start"
    /\ result = <<>>
    /\ again = <<>>
    /\ UploaderIdle
    /\ ConnectionIdle
    /\ FunctionIdle
    /\ StorageIdle
    /\ ProcessAudioIdle

(* result = sanitize_filename_for_supabase(filename) *)
Sanitize ==
    /\ pc = "start"
    /\ result' = sanitize_filename_for_supabase(filename)
    /\ pc' = "sanitized"
    /\ UNCHANGED <<filename, again, upvars, extvars>>

(* the sanitizer applied to its own output *)
SanitizeAgain ==
    /\ pc = "sanitized"
    /\ again' = sanitize_filename_for_supabase(result)
    /\ pc' = "resanitized"
    /\ UNCHANGED <<filename, result, upvars, extvars>>

(* result = _sanitize_part(filename) *)
SanitizePart ==
    /\ pc = "start"
    /\ result' = _sanitize_part(filename)
    /\ pc' = "part"
    /\ UNCHANGED <<filename, again, upvars, extvars>>

(* the helper applied to its own output *)
SanitizePartAgain ==
    /\ pc = "part"
    /\ again' = _sanitize_part(result)
    /\ pc' = "repart"
    /\ UNCHANGED <<filename, result, upvars, extvars>>

Next == Sanitize \/ SanitizeAgain \/ SanitizePart \/ SanitizePartAgain

Spec == Init /\ [][Next]_vars

(* the same calls on speaker-name inputs *)
LetterInit ==
    /\ filename \in LetterInputs
    /\ pc = "start"
    /\ result = <<>>
    /\ again = <<>>
    /\ UploaderIdle
    /\ ConnectionIdle
    /\ FunctionIdle
    /\ StorageIdle
    /\ ProcessAudioIdle

LetterSpec == LetterInit /\ [][Next]_vars

(***************************************************************************)
(* SupabaseUploader.upload_audio_to_supabase, one action per step between  *)
(* two calls to the outside (file system, storage backend)                 *)
(***************************************************************************)
UploadInit ==
    /\ filename = <<>>
    /\ pc = "idle"
    /\ result = <<>>
    /\ again = <<>>
    /\ file_name \in UploadNames
    /\ file_exists \in BOOLEAN
    /\ upc = "called"
    /\ sanitized_file_name = <<>>
    /\ file_content = "unread"
    /\ uploads = <<>>
    /\ lookups = <<>>
    /\ ret = None
    /\ ConnectionIdle
    /\ FunctionIdle
    /\ StorageIdle
    /\ ProcessAudioIdle

(* lines 188-190: the local file does not exist *)
FileNotFound ==
    /\ upc = "called"
    /\ ~file_exists
    /\ ret' = None
    /\ upc' = "returned"
    /\ UNCHANGED <<sanvars, extvars>>
    /\ UNCHANGED <<file_name, file_exists, sanitized_file_name, file_content,
                   uploads, lookups>>

(* the method going on without the test of line 188 *)
SanitizeName_NoExistsCheck ==
    /\ upc = "called"
    /\ sanitized_file_name' = sanitize_filename_for_supabase(file_name)
    /\ upc' = "read"
    /\ UNCHANGED <<sanvars, extvars>>
    /\ UNCHANGED <<file_name, file_exists, file_content, uploads, lookups,
                   ret>>

(* line 193 *)
SanitizeName ==
    /\ upc = "called"
    /\ file_exists
    /\ sanitized_file_name' = sanitize_filename_for_supabase(file_name)
    /\ upc' = "read"
    /\ UNCHANGED <<sanvars, extvars>>
    /\ UNCHANGED <<file_name, file_exists, file_content, uploads, lookups,
                   ret>>

(* line 198: os.path.getsize is called before the try block is entered,   *)
(* so its error (the file went away after the test of line 188) leaves    *)
(* the method as an exception                                             *)
GetSizeFails ==
    /\ upc = "read"
    /\ upc' = "raised"
    /\ UNCHANGED <<sanvars, extvars>>
    /\ UNCHANGED <<file_name, file_exists, sanitized_file_name, file_content,
                   uploads, lookups, ret>>

(* lines 203-204: the file is read *)
ReadFile ==
    /\ upc = "read"
    /\ \E content \in FileContents : file_content' = content
    /\ upc' = "upload"
    /\ UNCHANGED <<sanvars, extvars>>
    /\ UNCHANGED <<file_name, file_exists, sanitized_file_name, uploads,
                   lookups, ret>>

(* lines 203-204 raise, caught at lines 257-259 *)
ReadFileFails ==
    /\ upc = "read"
    /\ ret' = None
    /\ upc' = "returned"
    /\ UNCHANGED <<sanvars, extvars>>
    /\ UNCHANGED <<file_name, file_exists, sanitized_file_name, file_content,
                   uploads, lookups>>

(* lines 207-230 and 253-259: the first upload call and what follows it up *)
(* to the next call or the return                                          *)
FirstUpload ==
    /\ upc = "upload"
    /\ \E outcome \in UploadOutcomes :
           LET request == UploadRequest(file_name, sanitized_file_name,
                                        file_content)
               error_msg == IF outcome.kind = "raise" THEN outcome.msg
                            ELSE MsgEmptyResult
           IN  /\ uploads' = Append(uploads, [request |-> request,
                                              outcome |-> outcome])
               /\ IF UploadSucceeded(outcome)
                  THEN upc' = "get_url" /\ ret' = ret
                  ELSE IF IsDuplicateError(error_msg)
                  THEN upc' = "upsert" /\ ret' = ret
                  ELSE upc' = "returned" /\ ret' = None
    /\ UNCHANGED <<sanvars, extvars>>
    /\ UNCHANGED <<file_name, file_exists, sanitized_file_name, file_content,
                   lookups>>

(* lines 232-252: the upsert call *)
UpsertUpload ==
    /\ upc = "upsert"
    /\ \E outcome \in UploadOutcomes :
           LET request == UpsertRequest(file_name, sanitized_file_name,
                                        file_content)
           IN  /\ uploads' = Append(uploads, [request |-> request,
                                              outcome |-> outcome])
               /\ IF outcome.kind = "truthy"
                  THEN upc' = "get_url" /\ ret' = ret
                  ELSE upc' = "returned" /\ ret' = None
    /\ UNCHANGED <<sanvars, extvars>>
    /\ UNCHANGED <<file_name, file_exists, sanitized_file_name, file_content,
                   lookups>>

(* lines 218, 222, 246: return self._get_public_url(sanitized_file_name) *)
GetPublicUrl ==
    /\ upc = "get_url"
    /\ \E answer \in UrlAnswers(sanitized_file_name) :
           /\ lookups' = Append(lookups, [key |-> sanitized_file_name,
                                          answer |-> answer])
           /\ ret' = PublicUrlOf(answer, sanitized_file_name)
    /\ upc' = "returned"
    /\ UNCHANGED <<sanvars, extvars>>
    /\ UNCHANGED <<file_name, file_exists, sanitized_file_name, file_content,
                   uploads>>

UploadNext ==
    \/ FileNotFound
    \/ SanitizeName
    \/ GetSizeFails
    \/ ReadFile
    \/ ReadFileFails
    \/ FirstUpload
    \/ UpsertUpload
    \/ GetPublicUrl

UploadSpec == UploadInit /\ [][UploadNext]_vars

(* what list_buckets may do: raise, or answer a list of buckets, given by  *)
(* the set of their names                                                  *)
ListOutcomes ==
    {Raised}
    \cup {[kind |-> "buckets", names |-> names] :
             names \in SUBSET {bucket_name, "avatars"}}

(* the bucket taken for present whatever the listing says *)
bucket_exists_Always(buckets) == TRUE

(* line 159: any(bucket.name == self.bucket_name for bucket in result) *)
bucket_exists(buckets) == bucket_name \in buckets.names

(* lines 153-163 and 172-175: the listing and what follows it up to the    *)
(* create_bucket call or the return                                        *)
ListBuckets ==
    /\ cpc = "called"
    /\ \E outcome \in ListOutcomes :
           /\ listed' = outcome
           /\ IF outcome = Raised
              THEN conn_ret' = "False" /\ cpc' = "returned"
              ELSE IF bucket_exists(outcome)
              THEN conn_ret' = "True" /\ cpc' = "returned"
              ELSE conn_ret' = conn_ret /\ cpc' = "create"
    /\ UNCHANGED create_calls
    /\ UNCHANGED <<sanvars, upvars, fnvars, m3vars, pavars>>

(* lines 165-172: the create_bucket call *)
CreateBucket ==
    /\ cpc = "create"
    /\ \E outcome \in {"created", "raise"} :
           /\ create_calls' = Append(create_calls,
                                     [name |-> bucket_name,
                                      options |-> ("public" :> TRUE),
                                      outcome |-> outcome])
           /\ conn_ret' = IF outcome = "raise" THEN "False" ELSE "True"
    /\ cpc' = "returned"
    /\ UNCHANGED listed
    /\ UNCHANGED <<sanvars, upvars, fnvars, m3vars, pavars>>

(***************************************************************************)
(* The module-level upload_audio_to_supabase(file_path, file_name)         *)
(***************************************************************************)
(* a string with the value of a Python literal *)
Str(value) == [kind |-> "str", value |-> value]

EmptyString == Str("")

(* the truth value Python gives None and the empty string *)
Falsy(v) == v \in {None, EmptyString}

Exception(msg) == [kind |-> "raise", msg |-> msg]

(* the test of line 311 with "and" in the place of "or" *)
credentials_missing_BothUnset(url, key) == Falsy(url) /\ Falsy(key)

(* line 311: not supabase_url or not supabase_key *)
credentials_missing(url, key) == Falsy(url) \/ Falsy(key)

SanitizerIdle ==
    /\ filename = <<>>
    /\ pc = "idle"
    /\ result = <<>>
    /\ again = <<>>

FunctionInit ==
    /\ SanitizerIdle
    /\ UploaderIdle
    /\ ConnectionIdle
    /\ env_url \in {None, EmptyString, Str(supabase_url)}
    /\ env_key \in {None, EmptyString, Str("anon-key")}
    /\ arg_path \in {"/data/a.wav", "/data/b.wav"}
    /\ arg_name \in UploadNames
    /\ fpc = "called"
    /\ fn_calls = <<>>
    /\ fn_ret = None
    /\ StorageIdle
    /\ ProcessAudioIdle

(* lines 308-312 *)
CredentialsMissing ==
    /\ fpc = "called"
    /\ credentials_missing(env_url, env_key)
    /\ fn_ret' = Exception("Supabase credentials not found")
    /\ fpc' = "raised"
    /\ UNCHANGED <<env_url, env_key, arg_path, arg_name, fn_calls>>
    /\ UNCHANGED <<sanvars, upvars, connvars, m3vars, pavars>>

(* line 315: SupabaseUploader(supabase_url, supabase_key); __init__        *)
(* re-raises what create_client raises (lines 143-149)                     *)
CreateUploader ==
    /\ fpc = "called"
    /\ ~credentials_missing(env_url, env_key)
    /\ fn_calls' = Append(fn_calls, [op |-> "SupabaseUploader",
                                     url |-> env_url, key |-> env_key])
    /\ \E client_ok \in BOOLEAN :
           IF client_ok THEN fpc' = "created" /\ fn_ret' = fn_ret
           ELSE fpc' = "raised" /\ fn_ret' = Exception("create_client failed")
    /\ UNCHANGED <<env_url, env_key, arg_path, arg_name>>
    /\ UNCHANGED <<sanvars, upvars, connvars, m3vars, pavars>>

(* line 318: uploader.test_connection() is called *)
CallTestConnection ==
    /\ fpc = "created"
    /\ fn_calls' = Append(fn_calls, [op |-> "test_connection"])
    /\ cpc' = "called"
    /\ fpc' = "testing"
    /\ UNCHANGED <<listed, create_calls, conn_ret>>
    /\ UNCHANGED <<env_url, env_key, arg_path, arg_name, fn_ret>>
    /\ UNCHANGED <<sanvars, upvars, m3vars, pavars>>

(* lines 318-319: test_connection has returned *)
ConnectionTested ==
    /\ fpc = "testing"
    /\ cpc = "returned"
    /\ IF conn_ret = "True" THEN fpc' = "connected" /\ fn_ret' = fn_ret
       ELSE fpc' = "raised" /\ fn_ret' = Exception("Cannot connect to Supabase")
    /\ UNCHANGED <<env_url, env_key, arg_path, arg_name, fn_calls>>
    /\ UNCHANGED <<sanvars, upvars, connvars, m3vars, pavars>>

(* line 322: uploader.upload_audio_to_supabase(file_path, file_name) is    *)
(* called; whether file_path exists is the file system's answer            *)
CallUpload ==
    /\ fpc = "connected"
    /\ fn_calls' = Append(fn_calls, [op |-> "upload_audio_to_supabase",
                                     file_path |-> arg_path,
                                     file_name |-> arg_name])
    /\ file_name' = arg_name
    /\ file_exists' \in BOOLEAN
    /\ upc' = "called"
    /\ fpc' = "uploading"
    /\ UNCHANGED <<sanitized_file_name, file_content, uploads, lookups, ret>>
    /\ UNCHANGED <<env_url, env_key, arg_path, arg_name, fn_ret>>
    /\ UNCHANGED <<sanvars, connvars, m3vars, pavars>>

(* lines 322-328: the upload method has returned or raised *)
UploadReturned ==
    /\ fpc = "uploading"
    /\ upc \in {"returned", "raised"}
    /\ IF upc = "raised" THEN fpc' = "raised" /\ fn_ret' = Raised
       ELSE IF Falsy(ret)
       THEN /\ fpc' = "raised"
            /\ fn_ret' = Exception("Khong the upload file audio len Supabase")
       ELSE fpc' = "returned" /\ fn_ret' = ret
    /\ UNCHANGED <<env_url, env_key, arg_path, arg_name, fn_calls>>
    /\ UNCHANGED <<sanvars, upvars, connvars, m3vars, pavars>>

FunctionNext ==
    \/ CredentialsMissing
    \/ CreateUploader
    \/ CallTestConnection
    \/ ListBuckets
    \/ CreateBucket
    \/ ConnectionTested
    \/ CallUpload
    \/ FileNotFound
    \/ SanitizeName
    \/ GetSizeFails
    \/ ReadFile
    \/ ReadFileFails
    \/ FirstUpload
    \/ UpsertUpload
    \/ GetPublicUrl
    \/ UploadReturned

FunctionSpec == FunctionInit /\ [][FunctionNext]_vars

(***************************************************************************)
(* Module3_SupabaseStorage.process and its inputs                          *)
(***************************************************************************)
(* Longest list of segments handed to Module 3. *)
MaxSegments == 2

(* str(n) for one decimal digit *)
DigitChar(n) == <<"0", "1", "2", "3", "4", "5", "6", "7", "8", "9">>[n + 1]

RECURSIVE Decimal(_)
(* str(n) for a natural number *)
Decimal(n) ==
    IF n < 10 THEN <<DigitChar(n)>>
    ELSE Decimal(n \div 10) \o <<DigitChar(n % 10)>>

(* f"{i:03d}", for i below 1000 *)
Format03d(i) ==
    <<DigitChar(i \div 100), DigitChar((i \div 10) % 10), DigitChar(i % 10)>>

(* f"{t:.1f}" for a whole number of seconds *)
Format1f(t) == Decimal(t) \o <<".", "0">>

(* f"{t:05.1f}" for a whole number of seconds below 1000 *)
Format05_1f(t) ==
    <<DigitChar(t \div 100), DigitChar((t \div 10) % 10), DigitChar(t % 10),
      ".", "0">>

(* datetime.now().strftime('%Y%m%d_%H%M%S') *)
Timestamp == <<"2", "0", "2", "6", "1", "1", "0", "3", "_",
               "1", "2", "0", "0", "0", "0">>

(* Path(p).stem: the name without its suffix *)
PathStem(p) ==
    SubSeq(PathName(p), 1, Len(PathName(p)) - Len(PathSuffix(p)))

(* seconds of audio per segment, line 71 of Module 1 *)
segment_duration == 10

(* f"SPEAKER_{(i % 2) + 1}" *)
speaker_id(i) ==
    <<"S", "P", "E", "A", "K", "E", "R", "_">> \o Decimal((i % 2) + 1)

(* _create_segment_file: the path of the segment file *)
segment_file(original, index, start_time, end_time) ==
    <<"/", "t", "m", "p", "/">> \o PathStem(original)
    \o <<"_", "s", "e", "g", "m", "e", "n", "t", "_">> \o Format03d(index)
    \o <<"_">> \o Format1f(start_time) \o <<"s", "-">> \o Format1f(end_time)
    \o <<"s", ".", "w", "a", "v">>

(* the transcript Module 2 gives segment i *)
transcript(i) == <<"phrase-0", "phrase-1", "phrase-2", "phrase-3",
                   "phrase-4">>[(i % 5) + 1]

(* the AudioSegment Module 1 makes for index i, with Module 2's transcript *)
AudioSegment(original, i) ==
    [file_path |-> segment_file(original, i, i * segment_duration,
                                (i + 1) * segment_duration),
     speaker_id |-> speaker_id(i),
     start_time |-> i * segment_duration,
     end_time |-> (i + 1) * segment_duration,
     transcript |-> transcript(i)]

(* the list of the first n segments of a file *)
SegmentList(original, n) == [k \in 1..n |-> AudioSegment(original, k - 1)]

(* the audio files handed to the pipeline *)
OriginalFiles == {NameTestWav, NameFolderUpperWav}

(* line 206 *)
original_name(original) ==
    <<"o", "r", "i", "g", "i", "n", "a", "l", "_">> \o Timestamp \o <<"_">>
    \o PathName(original)

(* lines 218-220 *)
base_folder(original) ==
    PathStem(original) \o <<"_">> \o Timestamp
    \o <<"/", "s", "e", "g", "m", "e", "n", "t", "s">>

(* line 229 *)
segment_filename(i, segment) ==
    <<"s", "e", "g", "m", "e", "n", "t", "_">> \o Format03d(i) \o <<"_">>
    \o Format05_1f(segment.start_time) \o <<"s", "_">> \o segment.speaker_id
    \o <<".", "w", "a", "v">>

(* line 230 *)
segment_path(original, i, segment) ==
    base_folder(original) \o <<"/">> \o segment_filename(i, segment)

(* lines 258-268: the metadata records made, in order, for the pairs of   *)
(* zip(segments, urls) whose url passes the test of line 259               *)
_store_transcript_metadata(segs, urls) ==
    LET shorter == IF Len(segs) < Len(urls) THEN Len(segs) ELSE Len(urls)
        zipped == [k \in 1..shorter |-> [segment |-> segs[k], url |-> urls[k]]]
        stored == SelectSeq(zipped,
                            LAMBDA pair :
                                /\ ~Falsy(pair.url)
                                /\ pair.url \notin {Str("failed"), Str("error"),
                                                    Str("not_found")})
    IN  [k \in 1..Len(stored) |->
            [file_url |-> stored[k].url,
             speaker |-> stored[k].segment.speaker_id,
             start_time |-> stored[k].segment.start_time,
             end_time |-> stored[k].segment.end_time,
             transcript |-> stored[k].segment.transcript]]

StorageInit ==
    /\ SanitizerIdle
    /\ UploaderIdle
    /\ ConnectionIdle
    /\ FunctionIdle
    /\ ProcessAudioIdle
    /\ has_uploader \in BOOLEAN
    /\ original_file \in OriginalFiles
    /\ \E n \in 0..MaxSegments :
           /\ segments = SegmentList(original_file, n)
           /\ files \in SUBSET ({original_file}
                                \cup {segments[k].file_path : k \in 1..n})
    /\ m3pc = "called"
    /\ seg_i = 0
    /\ uploaded_urls = <<>>
    /\ m3_calls = <<>>
    /\ metadata = <<>>
    /\ m3_ret = None

(* self.uploader.upload_audio_to_supabase(path, name) is entered: the      *)
(* method starts with fresh locals and finds the file or not               *)
EnterUpload(path, name) ==
    /\ file_name' = name
    /\ file_exists' = (path \in files)
    /\ upc' = "called"
    /\ sanitized_file_name' = <<>>
    /\ file_content' = "unread"
    /\ uploads' = <<>>
    /\ lookups' = <<>>
    /\ ret' = None
    /\ m3_calls' = Append(m3_calls, [file_path |-> path, file_name |-> name])

(* lines 195-197: no uploader, the upload is simulated *)
NoUploader ==
    /\ m3pc = "called"
    /\ ~has_uploader
    /\ m3_ret' = [k \in 1..Len(segments) |->
                      Url("mock://uploaded", <<"/">>,
                          PathName(segments[k].file_path))]
    /\ m3pc' = "returned"
    /\ UNCHANGED <<has_uploader, original_file, segments, files, seg_i,
                   uploaded_urls, m3_calls, metadata>>
    /\ UNCHANGED <<sanvars, upvars, connvars, fnvars, pavars>>

(* line 200: self.uploader.test_connection() is called *)
StorageCallTestConnection ==
    /\ m3pc = "called"
    /\ has_uploader
    /\ cpc' = "called"
    /\ m3pc' = "testing"
    /\ UNCHANGED <<listed, create_calls, conn_ret>>
    /\ UNCHANGED <<has_uploader, original_file, segments, files, seg_i,
                   uploaded_urls, m3_calls, metadata, m3_ret>>
    /\ UNCHANGED <<sanvars, upvars, fnvars, pavars>>

(* lines 200-203: test_connection has returned *)
StorageConnectionTested ==
    /\ m3pc = "testing"
    /\ cpc = "returned"
    /\ IF conn_ret = "True" THEN m3pc' = "original" /\ m3_ret' = m3_ret
       ELSE m3pc' = "raised" /\ m3_ret' = Exception("Cannot connect to Supabase")
    /\ uploaded_urls' = <<>>
    /\ UNCHANGED <<has_uploader, original_file, segments, files, seg_i,
                   m3_calls, metadata>>
    /\ UNCHANGED <<sanvars, upvars, connvars, fnvars, pavars>>

(* lines 206-208: the upload of the original file is called *)
UploadOriginal ==
    /\ m3pc = "original"
    /\ EnterUpload(original_file, original_name(original_file))
    /\ m3pc' = "original_uploading"
    /\ UNCHANGED <<has_uploader, original_file, segments, files, seg_i,
                   uploaded_urls, metadata, m3_ret>>
    /\ UNCHANGED <<sanvars, connvars, fnvars, pavars>>

(* lines 209-214: the entry of the original file *)
OriginalUploaded ==
    /\ m3pc = "original_uploading"
    /\ upc \in {"returned", "raised"}
    /\ uploaded_urls' = Append(uploaded_urls,
                               IF upc = "raised" \/ Falsy(ret)
                               THEN Str("failed") ELSE ret)
    /\ seg_i' = 0
    /\ m3pc' = "segments"
    /\ UNCHANGED <<has_uploader, original_file, segments, files, m3_calls,
                   metadata, m3_ret>>
    /\ UNCHANGED <<sanvars, upvars, connvars, fnvars, pavars>>

(* lines 222-226: the file of segment i is missing *)
SegmentNotFound ==
    /\ m3pc = "segments"
    /\ seg_i < Len(segments)
    /\ segments[seg_i + 1].file_path \notin files
    /\ uploaded_urls' = Append(uploaded_urls, Str("not_found"))
    /\ seg_i' = seg_i + 1
    /\ UNCHANGED <<has_uploader, original_file, segments, files, m3pc,
                   m3_calls, metadata, m3_ret>>
    /\ UNCHANGED <<sanvars, upvars, connvars, fnvars, pavars>>

(* lines 222-233: the upload of segment i is called *)
UploadSegment ==
    /\ m3pc = "segments"
    /\ seg_i < Len(segments)
    /\ segments[seg_i + 1].file_path \in files
    /\ EnterUpload(segments[seg_i + 1].file_path,
                   segment_path(original_file, seg_i, segments[seg_i + 1]))
    /\ m3pc' = "segment_uploading"
    /\ UNCHANGED <<has_uploader, original_file, segments, files, seg_i,
                   uploaded_urls, metadata, m3_ret>>
    /\ UNCHANGED <<sanvars, connvars, fnvars, pavars>>

(* the loop left at the first segment whose upload raises *)
SegmentUploaded_StopOnError ==
    /\ m3pc = "segment_uploading"
    /\ upc \in {"returned", "raised"}
    /\ uploaded_urls' = Append(uploaded_urls,
                               IF upc = "raised" THEN Str("error") ELSE ret)
    /\ seg_i' = IF upc = "raised" THEN Len(segments) ELSE seg_i + 1
    /\ m3pc' = "segments"
    /\ UNCHANGED <<has_uploader, original_file, segments, files, m3_calls,
                   metadata, m3_ret>>
    /\ UNCHANGED <<sanvars, upvars, connvars, fnvars, pavars>>

(* lines 234-243: the entry of segment i *)
SegmentUploaded ==
    /\ m3pc = "segment_uploading"
    /\ upc \in {"returned", "raised"}
    /\ uploaded_urls' = Append(uploaded_urls,
                               IF upc = "raised" THEN Str("error") ELSE ret)
    /\ seg_i' = seg_i + 1
    /\ m3pc' = "segments"
    /\ UNCHANGED <<has_uploader, original_file, segments, files, m3_calls,
                   metadata, m3_ret>>
    /\ UNCHANGED <<sanvars, upvars, connvars, fnvars, pavars>>

(* lines 246-251: the loop is over, the metadata is stored and the list    *)
(* returned                                                                *)
StoreMetadata ==
    /\ m3pc = "segments"
    /\ seg_i = Len(segments)
    /\ metadata' = _store_transcript_metadata(segments, uploaded_urls)
    /\ m3_ret' = uploaded_urls
    /\ m3pc' = "returned"
    /\ UNCHANGED <<has_uploader, original_file, segments, files, seg_i,
                   uploaded_urls, m3_calls>>
    /\ UNCHANGED <<sanvars, upvars, connvars, fnvars, pavars>>

StorageNext ==
    \/ NoUploader
    \/ StorageCallTestConnection
    \/ ListBuckets
    \/ CreateBucket
    \/ StorageConnectionTested
    \/ UploadOriginal
    \/ OriginalUploaded
    \/ SegmentNotFound
    \/ UploadSegment
    \/ SegmentUploaded
    \/ StoreMetadata
    \/ FileNotFound
    \/ SanitizeName
    \/ GetSizeFails
    \/ ReadFile
    \/ ReadFileFails
    \/ FirstUpload
    \/ UpsertUpload
    \/ GetPublicUrl

StorageSpec == StorageInit /\ [][StorageNext]_vars

(***************************************************************************)
(* AudioTranscriptPipeline.process_audio                                   *)
(***************************************************************************)
(* _get_audio_duration: the mock length of every file, in seconds *)
file_duration == 30

(* line 73: max(1, int(file_duration / segment_duration)) *)
num_segments ==
    IF file_duration \div segment_duration > 1
    THEN file_duration \div segment_duration ELSE 1

(* line 363: segments if 'segments' in locals() else [] *)
CleanupList == IF pa_segments.bound THEN pa_segments.value ELSE <<>>

ProcessAudioInit ==
    /\ SanitizerIdle
    /\ UploaderIdle
    /\ ConnectionIdle
    /\ FunctionIdle
    /\ has_uploader \in BOOLEAN
    /\ original_file \in OriginalFiles
    /\ files \in SUBSET {original_file}
    /\ segments = <<>>
    /\ m3pc = "idle"
    /\ seg_i = 0
    /\ uploaded_urls = <<>>
    /\ m3_calls = <<>>
    /\ metadata = <<>>
    /\ m3_ret = None
    /\ papc = "called"
    /\ m1_segments = <<>>
    /\ pa_segments = [bound |-> FALSE, value |-> <<>>]
    /\ pa_stages = <<>>
    /\ created = {}
    /\ pa_pending = None
    /\ clean_i = 0
    /\ pa_ret = None

(* lines 331-333 and 63-73: Module 1 is entered *)
EnterModule1 ==
    /\ papc = "called"
    /\ pa_stages' = Append(pa_stages, "module1")
    /\ m1_segments' = <<>>
    /\ papc' = "module1"
    /\ UNCHANGED <<pa_segments, created, pa_pending, clean_i, pa_ret>>
    /\ UNCHANGED <<sanvars, upvars, connvars, fnvars, m3vars>>

(* lines 75-91 and 101-110: one turn of Module 1's loop, the segment file  *)
(* is created                                                              *)
CreateSegmentFile ==
    /\ papc = "module1"
    /\ Len(m1_segments) < num_segments
    /\ LET i == Len(m1_segments)
           segment == [AudioSegment(original_file, i)
                           EXCEPT !.transcript = "",
                                  !.end_time =
                                      IF (i + 1) * segment_duration
                                             < file_duration
                                      THEN (i + 1) * segment_duration
                                      ELSE file_duration]
       IN  /\ files' = files \cup {segment.file_path}
           /\ created' = created \cup {segment.file_path}
           /\ m1_segments' = Append(m1_segments, segment)
    /\ UNCHANGED <<papc, pa_segments, pa_stages, pa_pending, clean_i, pa_ret>>
    /\ UNCHANGED <<has_uploader, original_file, segments, m3pc, seg_i,
                   uploaded_urls, m3_calls, metadata, m3_ret>>
    /\ UNCHANGED <<sanvars, upvars, connvars, fnvars>>

(* line 108: Path(segment_path).touch() raises; the error leaves Module 1  *)
(* before line 333 has assigned segments, and is caught at line 358        *)
CreateSegmentFileFails ==
    /\ papc = "module1"
    /\ Len(m1_segments) < num_segments
    /\ pa_pending' = Exception("touch failed")
    /\ pa_stages' = Append(pa_stages, "cleanup")
    /\ clean_i' = 0
    /\ papc' = "cleanup"
    /\ UNCHANGED <<m1_segments, pa_segments, created, pa_ret>>
    /\ UNCHANGED <<sanvars, upvars, connvars, fnvars, m3vars>>

(* lines 93-94 and 333-336: Module 1 returns its list, Module 2 is entered *)
EnterModule2 ==
    /\ papc = "module1"
    /\ Len(m1_segments) = num_segments
    /\ pa_segments' = [bound |-> TRUE, value |-> m1_segments]
    /\ pa_stages' = Append(pa_stages, "module2")
    /\ papc' = "module2"
    /\ UNCHANGED <<m1_segments, created, pa_pending, clean_i, pa_ret>>
    /\ UNCHANGED <<sanvars, upvars, connvars, fnvars, m3vars>>

(* lines 131-150 and 336-339: Module 2 fills in the transcripts of the     *)
(* same segment objects and returns the list; Module 3 is entered          *)
EnterModule3 ==
    /\ papc = "module2"
    /\ pa_segments' =
           [bound |-> TRUE,
            value |-> [k \in DOMAIN pa_segments.value |->
                          [pa_segments.value[k]
                               EXCEPT !.transcript = transcript(k - 1)]]]
    /\ segments' = pa_segments'.value
    /\ m3pc' = "called"
    /\ seg_i' = 0
    /\ uploaded_urls' = <<>>
    /\ m3_calls' = <<>>
    /\ metadata' = <<>>
    /\ m3_ret' = None
    /\ pa_stages' = Append(pa_stages, "module3")
    /\ papc' = "module3"
    /\ UNCHANGED <<has_uploader, original_file, files>>
    /\ UNCHANGED <<m1_segments, created, pa_pending, clean_i, pa_ret>>
    /\ UNCHANGED <<sanvars, upvars, connvars, fnvars>>

(* lines 147 and 152-163: Module 2's cleanup of the GPU cache raises *)
Module2Fails ==
    /\ papc = "module2"
    /\ pa_pending' = Exception("ASR failed")
    /\ pa_stages' = Append(pa_stages, "cleanup")
    /\ clean_i' = 0
    /\ papc' = "cleanup"
    /\ UNCHANGED <<m1_segments, pa_segments, created, pa_ret>>
    /\ UNCHANGED <<sanvars, upvars, connvars, fnvars, m3vars>>

(* lines 339-363: Module 3 has returned its list, or raised; the result    *)
(* is built or the error logged, and the finally block is entered.  The    *)
(* locals of the uploader's methods are gone with their frames.            *)
Module3Finished ==
    /\ papc = "module3"
    /\ m3pc \in {"returned", "raised"}
    /\ file_name' = <<>>
    /\ file_exists' = FALSE
    /\ upc' = "idle"
    /\ sanitized_file_name' = <<>>
    /\ file_content' = "unread"
    /\ uploads' = <<>>
    /\ lookups' = <<>>
    /\ ret' = None
    /\ cpc' = "idle"
    /\ listed' = None
    /\ create_calls' = <<>>
    /\ conn_ret' = "unset"
    /\ IF m3pc = "raised" THEN pa_pending' = m3_ret /\ pa_ret' = pa_ret
       ELSE /\ pa_pending' = pa_pending
            /\ pa_ret' = [kind |-> "PipelineResult",
                          original_file |-> original_file,
                          segments |-> pa_segments.value,
                          supabase_urls |-> m3_ret]
    /\ pa_stages' = Append(pa_stages, "cleanup")
    /\ clean_i' = 0
    /\ papc' = "cleanup"
    /\ UNCHANGED <<m1_segments, pa_segments, created>>
    /\ UNCHANGED <<sanvars, fnvars, m3vars>>

(* lines 382-388: one turn of the cleanup loop; os.unlink may raise, which *)
(* is logged and leaves the file where it is                               *)
CleanupSegment ==
    /\ papc = "cleanup"
    /\ clean_i < Len(CleanupList)
    /\ LET path == CleanupList[clean_i + 1].file_path
       IN  IF path \in files /\ Contains(path, <<"/", "t", "m", "p", "/">>)
           THEN \E unlinked \in BOOLEAN :
                    files' = IF unlinked THEN files \ {path} ELSE files
           ELSE files' = files
    /\ clean_i' = clean_i + 1
    /\ UNCHANGED <<papc, m1_segments, pa_segments, pa_stages, created,
                   pa_pending, pa_ret>>
    /\ UNCHANGED <<has_uploader, original_file, segments, m3pc, seg_i,
                   uploaded_urls, m3_calls, metadata, m3_ret>>
    /\ UNCHANGED <<sanvars, upvars, connvars, fnvars>>

(* lines 356-363: the cleanup is over; the result is returned or the       *)
(* error raised again                                                      *)
ProcessAudioEnds ==
    /\ papc = "cleanup"
    /\ clean_i = Len(CleanupList)
    /\ IF pa_pending = None THEN papc' = "returned" /\ pa_ret' = pa_ret
       ELSE papc' = "raised" /\ pa_ret' = pa_pending
    /\ UNCHANGED <<m1_segments, pa_segments, pa_stages, created, pa_pending,
                   clean_i>>
    /\ UNCHANGED <<sanvars, upvars, connvars, fnvars, m3vars>>

(* Module 3 runs on the files Module 1 has just created, so its branch     *)
(* for a missing segment file is never taken inside process_audio          *)
ProcessAudioNext ==
    \/ EnterModule1
    \/ CreateSegmentFile
    \/ CreateSegmentFileFails
    \/ EnterModule2
    \/ Module2Fails
    \/ EnterModule3
    \/ NoUploader
    \/ StorageCallTestConnection
    \/ ListBuckets
    \/ CreateBucket
    \/ StorageConnectionTested
    \/ UploadOriginal
    \/ OriginalUploaded
    \/ UploadSegment
    \/ SegmentUploaded
    \/ StoreMetadata
    \/ FileNotFound
    \/ SanitizeName
    \/ GetSizeFails
    \/ ReadFile
    \/ ReadFileFails
    \/ FirstUpload
    \/ UpsertUpload
    \/ GetPublicUrl
    \/ Module3Finished
    \/ CleanupSegment
    \/ ProcessAudioEnds

ProcessAudioSpec == ProcessAudioInit /\ [][ProcessAudioNext]_vars

TypeOK ==
    /\ filename \in Inputs \cup LetterInputs
    /\ pc \in {"idle", "start", "sanitized", "resanitized", "part", "repart"}
    /\ upc \in {"idle", "called", "read", "upload", "upsert", "get_url",
                "returned", "raised"}
    /\ file_exists \in BOOLEAN
    /\ Len(uploads) <= 2
    /\ Len(lookups) <= 1
    /\ cpc \in {"idle", "called", "create", "returned"}
    /\ conn_ret \in {"unset", "True", "False"}
    /\ Len(create_calls) <= 1
    /\ fpc \in {"idle", "called", "created", "testing", "connected",
                "uploading", "returned", "raised"}
    /\ Len(fn_calls) <= 3
    /\ has_uploader \in BOOLEAN
    /\ m3pc \in {"idle", "called", "testing", "original", "original_uploading",
                 "segments", "segment_uploading", "returned", "raised"}
    /\ seg_i \in 0..Len(segments)
    /\ Len(uploaded_urls) <= Len(segments) + 1
    /\ Len(m3_calls) <= Len(segments) + 1
    /\ papc \in {"idle", "called", "module1", "module2", "module3", "cleanup",
                 "returned", "raised"}
    /\ pa_segments.bound \in BOOLEAN
    /\ Len(m1_segments) <= num_segments
    /\ clean_i \in 0..num_segments
    /\ Len(pa_stages) <= 4
    /\ created \subseteq {segment_file(original_file, i, i * segment_duration,
                                       (i + 1) * segment_duration) :
                               i \in 0..(num_segments - 1)}
    /\ result \in Seq(NameSafe \cup Alphabet \cup LetterAlphabet)
    /\ again \in Seq(NameSafe \cup Alphabet \cup LetterAlphabet)

(***************************************************************************)
(* Vocabulary of the properties                                            *)
(***************************************************************************)
Sanitized == pc \in {"sanitized", "resanitized"}

(* the characters a storage key may contain *)
KeySafe == NameSafe \cup {"/"}

(* the '/'-delimited segments of an output string *)
Segments(s) == IF s = <<>> THEN <<>> ELSE SplitSlash(s)

LastSegment(s) == IF s = <<>> THEN <<>> ELSE SplitSlash(s)[Len(SplitSlash(s))]

(* the last segment has a genuine extension: it contains a dot and neither *)
(* starts nor ends with one                                                *)
ExtBearing(s) ==
    LET leaf == LastSegment(s)
    IN  /\ leaf # <<>>
        /\ \E i \in 1..Len(leaf) : leaf[i] = "."
        /\ leaf[1] # "."
        /\ leaf[Len(leaf)] # "."

(* the text after / before the final dot of the last segment *)
LeafExt(s) == RsplitExt(LastSegment(s))

LeafName(s) == RsplitName(LastSegment(s))

HasDoubleSlash(s) == \E i \in 1..(Len(s) - 1) : s[i] = "/" /\ s[i + 1] = "/"

(***************************************************************************)
(* C1: every character of sanitize_filename_for_supabase(s) is in          *)
(* {a-z, A-Z, 0-9, '.', '_', '-', '/'}, for every input s.                 *)
(* Fails: the extension of the last segment is copied unsanitized.         *)
(***************************************************************************)
C1_CharsetInvariant ==
    Sanitized => \A i \in 1..Len(result) : result[i] \in KeySafe

(***************************************************************************)
(* C2: the output has no empty segment: no "//", no leading '/' and no     *)
(* trailing '/'.                                                           *)
(***************************************************************************)
C2_NoEmptySegment ==
    Sanitized =>
        /\ ~HasDoubleSlash(result)
        /\ result # <<>> => result[1] # "/" /\ result[Len(result)] # "/"

C2_Witness ==
    /\ Sanitized
    /\ HasDoubleSlash(filename)
    /\ filename[1] = "/"
    /\ filename[Len(filename)] = "/"
    /\ result # <<>>

(***************************************************************************)
(* C3: no segment of the output starts with '_' and none ends with '_',    *)
(* the extension-bearing last segment included.                            *)
(* Fails: an extension that ends in '_' is copied as it is ("a._").        *)
(***************************************************************************)
C3_NoEdgeUnderscore ==
    Sanitized =>
        \A k \in 1..Len(Segments(result)) :
            LET seg == Segments(result)[k]
            IN  seg # <<>> => seg[1] # "_" /\ seg[Len(seg)] # "_"

(***************************************************************************)
(* C4: no segment of the output starts or ends with '.'; a leaf ending in  *)
(* dots has no extension and loses them ("a." and "a.." give "a"), and     *)
(* dots directly before the extension dot are removed ("a..a" gives        *)
(* "a.a").                                                                 *)
(***************************************************************************)
C4_NoEdgeDot ==
    Sanitized =>
        /\ \A k \in 1..Len(Segments(result)) :
               LET seg == Segments(result)[k]
               IN  seg # <<>> => seg[1] # "." /\ seg[Len(seg)] # "."
        /\ ExtBearing(filename) =>
               /\ Len(result) > Len(LeafExt(filename)) + 1
               /\ result[Len(result) - Len(LeafExt(filename)) - 1] # "."
        /\ filename = <<"a", ".">> => result = <<"a">>
        /\ filename = <<"a", ".", ".">> => result = <<"a">>
        /\ filename = <<"a", ".", ".", "a">> => result = <<"a", ".", "a">>

C4_Witness ==
    /\ Sanitized
    /\ filename = <<"a", ".", ".", "a">>
    /\ result = <<"a", ".", "a">>

(***************************************************************************)
(* C5: for every input in which no segment is handled as extension-        *)
(* bearing, sanitizing the output again gives the same output.             *)
(* Fails: a dotted segment that was sanitized as a whole becomes an        *)
(* extension-bearing leaf on the second pass ("a_.a/" gives "a_.a", then   *)
(* "a.a").                                                                 *)
(***************************************************************************)
C5_IdempotentWithoutExtension ==
    pc = "resanitized" /\ ~ExtBearing(filename) => again = result

(***************************************************************************)
(* C6: _sanitize_part is idempotent, its output having only safe           *)
(* characters, no run of two or more '_' and no leading or trailing '_'    *)
(* or '.'.                                                                 *)
(***************************************************************************)
C6_PartIdempotent ==
    pc = "repart" =>
        /\ again = result
        /\ \A i \in 1..Len(result) : result[i] \in NameSafe
        /\ \A i \in 1..(Len(result) - 1) :
               ~(result[i] = "_" /\ result[i + 1] = "_")
        /\ result # <<>> =>
               /\ result[1] \notin {"_", "."}
               /\ result[Len(result)] \notin {"_", "."}

C6_Witness ==
    /\ pc = "repart"
    /\ \E i \in 1..Len(filename) : filename[i] \notin NameSafe
    /\ filename[1] \in {"_", "."}
    /\ result # <<>>
    /\ result # filename

(***************************************************************************)
(* C7 (as stated): some input whose last segment has a genuine extension   *)
(* with a character outside the safe set is changed by a second pass of    *)
(* the sanitizer.  Stated of the inputs the model draws, at the states     *)
(* where the second pass has run.                                          *)
(***************************************************************************)
C7_SomeUnsafeExtensionNotIdempotent ==
    pc = "resanitized" =>
        \E s \in Inputs :
            /\ ExtBearing(s)
            /\ \E i \in 1..Len(LeafExt(s)) : LeafExt(s)[i] \notin KeySafe
            /\ sanitize_filename_for_supabase(
                   sanitize_filename_for_supabase(s))
                   # sanitize_filename_for_supabase(s)

(***************************************************************************)
(* C7 (amended): on every input whose last segment has a genuine           *)
(* extension, whatever the extension contains, a second pass of the        *)
(* sanitizer returns the output of the first pass unchanged.               *)
(***************************************************************************)
C7_ExtensionBearingIdempotent ==
    pc = "resanitized" /\ ExtBearing(filename) => again = result

C7_Witness ==
    /\ pc = "resanitized"
    /\ ExtBearing(filename)
    /\ \E i \in 1..Len(LeafExt(filename)) : LeafExt(filename)[i] \notin KeySafe
    /\ result # filename
    /\ again = result

(* an input made of a dot followed by a non-empty, dot-free, slash-free    *)
(* extension                                                               *)
DotExtensionOnly(s) ==
    /\ Len(s) >= 2
    /\ s[1] = "."
    /\ \A i \in 2..Len(s) : s[i] \notin {".", "/"}

C9_StemFallback ==
    Sanitized /\ ExtBearing(filename)
              /\ _sanitize_part(LeafName(filename)) = <<>> =>
        LastSegment(result) = FileStem \o <<".">> \o LeafExt(filename)

C9_Witness ==
    /\ Sanitized
    /\ ExtBearing(filename)
    /\ _sanitize_part(LeafName(filename)) = <<>>
    /\ Len(Segments(result)) = 2
    /\ LastSegment(result) = FileStem \o <<".">> \o LeafExt(filename)

ExpectedSegment(ps, k) ==
    LET part == ps[k]
    IN  IF k = Len(ps) /\ ExtBearing(part)
        THEN (IF _sanitize_part(RsplitName(part)) = <<>> THEN FileStem
              ELSE _sanitize_part(RsplitName(part)))
             \o <<".">> \o RsplitExt(part)
        ELSE _sanitize_part(part)

ExpectedSegments(s) ==
    LET ps == SplitSlash(s)
    IN  SelectSeq([k \in 1..Len(ps) |-> ExpectedSegment(ps, k)],
                  LAMBDA seg : seg # <<>>)

C11_SegmentOrderAndCount ==
    Sanitized =>
        /\ Segments(result) = ExpectedSegments(filename)
        /\ Len(Segments(result)) <= Len(SplitSlash(filename))
        /\ filename = <<"a", "/", "a", ".", "a">> => result = filename

C11_Witness ==
    /\ Sanitized
    /\ Len(SplitSlash(filename)) = 2
    /\ Len(Segments(result)) = 2
    /\ HasDot(Segments(result)[1])
    /\ Segments(result)[1] # Segments(result)[2]

(***************************************************************************)
(* C12: the empty string and every string made only of whitespace, only    *)
(* of dots, only of underscores, only of combining marks or only of emoji  *)
(* sanitize to the empty string.                                           *)
(***************************************************************************)
DegenerateChars == {Space, ".", "_", CombAcute, Emoji}

Degenerate(s) ==
    \E c \in DegenerateChars : \A i \in 1..Len(s) : s[i] = c

C12_DegenerateToEmpty ==
    Sanitized /\ Degenerate(filename) => result = <<>>

C12_Witness ==
    /\ Sanitized
    /\ filename = <<".", ".", ".">>
    /\ result = <<>>

(***************************************************************************)
(* C13: in a name portion every letter that decomposes into an ASCII base  *)
(* letter plus non-spacing marks is output as that base letter, case       *)
(* kept, and D/d with stroke are output as D/d; such letters are never     *)
(* replaced by '_' or deleted.                                             *)
(***************************************************************************)
(* the ASCII letter a letter of the input is expected to become *)
BaseLetter(c) ==
    IF c = aAcute THEN "a"
    ELSE IF c = AAcute THEN "A"
    ELSE IF c \in {DStroke, DCaron} THEN "D"
    ELSE IF c \in {dStroke, dCaron} THEN "d"
    ELSE c

IsLetterIn(c) ==
    c \in Lower \cup Upper
           \cup {aAcute, AAcute, DStroke, dStroke, DCaron, dCaron}

BaseLetters(s) ==
    LET letters == SelectSeq(s, IsLetterIn)
    IN  [i \in 1..Len(letters) |-> BaseLetter(letters[i])]

C13_DiacriticsStripped ==
    pc \in {"part", "sanitized"} =>
        /\ SelectSeq(result, LAMBDA c : c \in Lower \cup Upper)
               = BaseLetters(filename)
        /\ filename = <<aAcute, aAcute, aAcute, aAcute, aAcute>>
               => result = <<"a", "a", "a", "a", "a">>
        /\ filename = <<DStroke, aAcute, "a">> => result = <<"D", "a", "a">>
        /\ filename = <<dStroke, AAcute>> => result = <<"d", "A">>

C13_Witness ==
    /\ pc = "part"
    /\ \E i \in 1..Len(filename) : filename[i] = DStroke
    /\ \E i \in 1..Len(filename) : filename[i] = AAcute
    /\ \E i \in 1..Len(filename) : filename[i] = aAcute
    /\ Len(result) = Len(filename)

(***************************************************************************)
(* C14: in a name portion every maximal run of unsafe characters or '_'    *)
(* lying between two kept characters becomes exactly one '_', so the       *)
(* output of _sanitize_part never contains "__"; such runs at the start    *)
(* or the end of the name disappear.                                       *)
(***************************************************************************)
(* a character of the input that yields one kept letter *)
KeptIn(c) == c \in Lower \cup Upper \cup Digits \cup {"-", aAcute, DStroke}

(* the expected output for the text from position i on, where pending      *)
(* tells that a run of unsafe characters or '_' has been passed since the  *)
(* last kept character and started tells that a kept character was seen    *)
RECURSIVE ExpectedName(_, _, _, _)
ExpectedName(s, i, started, pending) ==
    IF i > Len(s) THEN <<>>
    ELSE IF KeptIn(s[i])
    THEN (IF started /\ pending THEN <<"_">> ELSE <<>>)
         \o <<BaseLetter(s[i])>> \o ExpectedName(s, i + 1, TRUE, FALSE)
    ELSE IF IsMn(s[i]) THEN ExpectedName(s, i + 1, started, pending)
    ELSE ExpectedName(s, i + 1, started, TRUE)

DotFree(s) == \A i \in 1..Len(s) : s[i] # "."

C14_RunsBecomeOneUnderscore ==
    pc = "part" =>
        /\ \A i \in 1..(Len(result) - 1) :
               ~(result[i] = "_" /\ result[i + 1] = "_")
        /\ result # <<>> => result[1] # "_" /\ result[Len(result)] # "_"
        /\ DotFree(filename) => result = ExpectedName(filename, 1, FALSE, FALSE)
        /\ filename = <<"a", Emoji, Space, "_", "a">> => result = <<"a", "_", "a">>
        /\ filename = <<"_", "_", "a", "_", "_">> => result = <<"a">>

C14_Witness ==
    /\ pc = "part"
    /\ filename = <<"a", Emoji, Space, "_", "a">>
    /\ result = <<"a", "_", "a">>

(***************************************************************************)
(* Vocabulary of the uploader properties                                   *)
(***************************************************************************)
(* the canonical storage key of the call in progress *)
CanonicalKey == sanitize_filename_for_supabase(file_name)

HasUpsertOption(call) == "upsert" \in DOMAIN call.request.file_options

(* the error messages that name an existing or duplicate object *)
DuplicateMessages == {MsgFileExists, MsgDuplicateKey, MsgUpperExists}

FirstRaisedDuplicate ==
    /\ Len(uploads) >= 1
    /\ uploads[1].outcome.kind = "raise"
    /\ uploads[1].outcome.msg \in DuplicateMessages

(***************************************************************************)
(* C15: in every storage upload call (first attempt and upsert retry) the  *)
(* path is sanitize_filename_for_supabase(file_name), and the public URL   *)
(* returned is built for that same key; the raw file_name is never passed  *)
(* to the storage backend.                                                 *)
(***************************************************************************)
C15_SanitizedKeyOnly ==
    /\ \A i \in 1..Len(uploads) : uploads[i].request.path = CanonicalKey
    /\ \A i \in 1..Len(lookups) : lookups[i].key = CanonicalKey
    /\ ret # None => ret.key = CanonicalKey

C15_Witness ==
    /\ upc = "returned"
    /\ Len(uploads) = 2
    /\ ret # None
    /\ CanonicalKey # file_name
    /\ uploads[2].request.path = CanonicalKey

(***************************************************************************)
(* C16: when the key sanitizes to the empty string the uploader makes no   *)
(* storage upload call with an empty path and does not return a URL.       *)
(* Fails: the uploader has no such test and uploads under the empty key.   *)
(***************************************************************************)
C16_EmptyKeyRejected ==
    CanonicalKey = <<>> =>
        /\ \A i \in 1..Len(uploads) : uploads[i].request.path # <<>>
        /\ ret = None

(***************************************************************************)
(* C17: when the first upload raises an error whose message contains       *)
(* "already exists" or "duplicate" in any case, exactly one more upload    *)
(* call is made, for the same path and content, with upsert=True, and a    *)
(* truthy result of it makes the method return the public URL; the upsert  *)
(* call is made only after such an error.                                  *)
(***************************************************************************)
C17_UpsertFallback ==
    /\ Len(uploads) <= 2
    /\ FirstRaisedDuplicate /\ upc \in {"get_url", "returned"} =>
           /\ Len(uploads) = 2
           /\ uploads[2].request.path = uploads[1].request.path
           /\ uploads[2].request.file = uploads[1].request.file
           /\ HasUpsertOption(uploads[2])
           /\ uploads[2].request.file_options["upsert"] = TRUE
           /\ uploads[2].outcome.kind = "truthy" /\ upc = "returned" =>
                  /\ Len(lookups) = 1
                  /\ ret # None
    /\ \A i \in 1..Len(uploads) :
           HasUpsertOption(uploads[i]) => i = 2 /\ FirstRaisedDuplicate
    /\ Len(uploads) = 2 => FirstRaisedDuplicate

C17_Witness ==
    /\ upc = "returned"
    /\ Len(uploads) = 2
    /\ uploads[1].outcome.kind = "raise"
    /\ uploads[1].outcome.msg = MsgUpperExists
    /\ uploads[2].outcome.kind = "truthy"
    /\ ret # None

(***************************************************************************)
(* C18: when the first upload returns a truthy result, with or without a   *)
(* path attribute, exactly one upload call is made, without the upsert     *)
(* option, and the public URL is returned; when it returns a falsy result  *)
(* the method returns None.                                                *)
(***************************************************************************)
C18_SuccessWithoutStatusCode ==
    upc = "returned" /\ Len(uploads) >= 1 =>
        /\ uploads[1].outcome.kind = "truthy" =>
               /\ Len(uploads) = 1
               /\ ~HasUpsertOption(uploads[1])
               /\ Len(lookups) = 1
               /\ ret # None
               /\ ret.kind = "url"
        /\ uploads[1].outcome.kind = "falsy" =>
               /\ Len(uploads) = 1
               /\ ret = None

C18_Witness ==
    /\ upc = "returned"
    /\ Len(uploads) = 1
    /\ uploads[1].outcome.kind = "truthy"
    /\ ~uploads[1].outcome.has_path
    /\ ret # None

(***************************************************************************)
(* C19: the content type depends only on the extension suffix of the       *)
(* name, compared without regard to case: .wav audio/wav, .mp3 audio/mpeg, *)
(* .m4a audio/mp4, .flac audio/flac, .ogg audio/ogg, anything else or no   *)
(* suffix audio/mpeg.                                                      *)
(***************************************************************************)
(* name ends with suffix in some mix of cases, after a non-empty stem *)
EndsWithNoCase(name, suffix) ==
    /\ Len(name) > Len(suffix)
    /\ name[Len(name) - Len(suffix)] # "/"
    /\ ToLower(SubSeq(name, Len(name) - Len(suffix) + 1, Len(name))) = suffix

ExpectedContentType(name) ==
    IF EndsWithNoCase(name, SuffixWav) THEN "audio/wav"
    ELSE IF EndsWithNoCase(name, SuffixMp3) THEN "audio/mpeg"
    ELSE IF EndsWithNoCase(name, SuffixM4a) THEN "audio/mp4"
    ELSE IF EndsWithNoCase(name, SuffixFlac) THEN "audio/flac"
    ELSE IF EndsWithNoCase(name, SuffixOgg) THEN "audio/ogg"
    ELSE "audio/mpeg"

C19_ContentTypeBySuffix ==
    \A i \in 1..Len(uploads) :
        LET request == uploads[i].request
        IN  /\ request.file_options["content-type"]
                   = ExpectedContentType(request.path)
            /\ file_name = NameFolderUpperWav =>
                   request.file_options["content-type"] = "audio/wav"
            /\ file_name = NameMixedOgg =>
                   request.file_options["content-type"] = "audio/ogg"
            /\ file_name \in {NameTxt, NameNoSuffix, NameHiddenWav,
                              NameUnsafeExt, NameSpacedMp3} =>
                   request.file_options["content-type"] = "audio/mpeg"

C19_Witness ==
    /\ Len(uploads) = 1
    /\ file_name = NameFolderUpperWav
    /\ uploads[1].request.file_options["content-type"] = "audio/wav"

(***************************************************************************)
(* C20: _get_public_url always returns a URL: the backend's answer when    *)
(* it is a string, else its url attribute, else its public_url attribute,  *)
(* and the URL <supabase_url>/storage/v1/object/public/<bucket>/<name>     *)
(* when the backend call raises or the answer has none of these.           *)
(***************************************************************************)
ExpectedPublicUrl(answer, key) ==
    CASE answer.kind = "str" -> answer.value
      [] answer.kind = "obj" /\ "url" \in DOMAIN answer.attrs
             -> answer.attrs["url"]
      [] answer.kind = "obj" /\ "url" \notin DOMAIN answer.attrs
                             /\ "public_url" \in DOMAIN answer.attrs
             -> answer.attrs["public_url"]
      [] OTHER -> [kind |-> "url", base |-> "https://project.supabase.co",
                   route |-> <<"/storage/v1/object/public/", "audio_files",
                               "/">>,
                   key |-> key]

C20_PublicUrlFallback ==
    upc = "returned" /\ Len(lookups) = 1 =>
        /\ ret = ExpectedPublicUrl(lookups[1].answer, lookups[1].key)
        /\ ret.kind = "url"

C20_Witness ==
    /\ upc = "returned"
    /\ Len(lookups) = 1
    /\ lookups[1].answer.kind = "obj"
    /\ DOMAIN lookups[1].answer.attrs = {"url", "public_url"}
    /\ lookups[1].answer.attrs["url"] # lookups[1].answer.attrs["public_url"]
    /\ ret = lookups[1].answer.attrs["url"]

(***************************************************************************)
(* C22: empty segments do not affect the result: the sanitizer gives the   *)
(* same output for s and for s with its leading, trailing and repeated     *)
(* slashes removed; in particular sanitize(p + "/") = sanitize(p).         *)
(* Fails: whether a segment is the last one is decided on the raw split,   *)
(* so a trailing slash keeps the leaf out of the extension branch.         *)
(***************************************************************************)
(* s with its leading, trailing and repeated slashes removed *)
WithoutEmptySegments(s) ==
    JoinSlash(SelectSeq(SplitSlash(s), LAMBDA part : part # <<>>))

C22_EmptySegmentsIgnored ==
    Sanitized =>
        /\ result = sanitize_filename_for_supabase(WithoutEmptySegments(filename))
        /\ sanitize_filename_for_supabase(filename \o <<"/">>) = result

(***************************************************************************)
(* C26: no path-traversal segment survives: no '/'-delimited segment of    *)
(* sanitize_filename_for_supabase(s) is "." or "..".                       *)
(***************************************************************************)
TraversalSegments == {<<".">>, <<".", ".">>}

C26_NoTraversalSegment ==
    Sanitized =>
        \A k \in 1..Len(Segments(result)) :
            Segments(result)[k] \notin TraversalSegments

(* ".." as the first input segment, and something left of the path *)
C26_Witness ==
    /\ Sanitized
    /\ SplitSlash(filename)[1] = <<".", ".">>
    /\ Len(Segments(result)) = 1

(***************************************************************************)
(* C27: kept characters are never lost or reordered: when the name portion *)
(* of a segment does not sanitize to empty, the ASCII letters, digits and  *)
(* '-' of the sanitized name are, in order, multiplicity and case, those   *)
(* of the input name after diacritic stripping.                            *)
(***************************************************************************)
KeptOut(c) == c \in Lower \cup Upper \cup Digits \cup {"-"}

(* the ASCII letters, digits and '-' of a string, in order *)
KeptChars(s) == SelectSeq(s, KeptOut)

(* the same for an input name, a letter with diacritics counting as its    *)
(* base letter                                                             *)
ExpectedKept(s) ==
    LET kept == SelectSeq(s, LAMBDA c : KeptOut(c) \/ IsLetterIn(c))
    IN  [i \in 1..Len(kept) |-> BaseLetter(kept[i])]

SingleSegment(s) == \A i \in 1..Len(s) : s[i] # "/"

C27_KeptCharactersPreserved ==
    /\ pc = "part" /\ result # <<>> =>
           KeptChars(result) = ExpectedKept(filename)
    /\ ( /\ pc = "sanitized"
         /\ SingleSegment(filename)
         /\ ExtBearing(filename)
         /\ ExpectedKept(RsplitName(filename)) # <<>> ) =>
           KeptChars(RsplitName(result)) = ExpectedKept(RsplitName(filename))
    /\ pc = "sanitized" /\ filename = <<DStroke, Emoji, aAcute, ".", "a">> =>
           result = <<"D", "_", "a", ".", "a">>

C27_Witness ==
    /\ pc = "sanitized"
    /\ filename = <<"a", "_", DStroke, ".", aAcute>>
    /\ KeptChars(RsplitName(result)) = <<"a", "D">>

(***************************************************************************)
(* C23: SupabaseUploader.upload_audio_to_supabase reports every upload     *)
(* failure as None instead of raising and bounds its attempts: whatever    *)
(* the storage backend does, there are at most two upload calls, the       *)
(* second only after a duplicate / already-exists error of the first, no   *)
(* retry after any other error, and the value returned is a public URL or  *)
(* None.                                                                   *)
(***************************************************************************)
(* the first upload call did not succeed *)
FirstUploadFailed ==
    /\ Len(uploads) >= 1
    /\ uploads[1].outcome.kind \in {"raise", "falsy"}

C23_FailuresReportedAsNone ==
    /\ Len(uploads) <= 2
    /\ Len(uploads) = 2 => FirstRaisedDuplicate
    /\ upc = "returned" /\ FirstUploadFailed /\ ~FirstRaisedDuplicate =>
           Len(uploads) = 1 /\ ret = None
    /\ upc = "returned" /\ Len(uploads) = 2
           /\ uploads[2].outcome.kind \in {"raise", "falsy"} => ret = None
    /\ upc = "returned" => ret = None \/ ret.kind = "url"
    /\ uploads # <<>> => upc # "raised"

(* a duplicate error, then an upsert that raises as well *)
C23_Witness ==
    /\ upc = "returned"
    /\ Len(uploads) = 2
    /\ uploads[1].outcome.kind = "raise"
    /\ uploads[2].outcome.kind = "raise"
    /\ ret = None

(***************************************************************************)
(* C24: when the local file does not exist the method returns None and     *)
(* has not sanitized the name, read the file or made any storage call (no  *)
(* upload, no upsert, no public-URL lookup).                               *)
(***************************************************************************)
C24_MissingFileTouchesNothing ==
    ~file_exists /\ upc # "idle" =>
        /\ upc \in {"called", "returned"}
        /\ sanitized_file_name = <<>>
        /\ file_content = "unread"
        /\ uploads = <<>>
        /\ lookups = <<>>
        /\ ret = None

(* the call has returned for a missing file whose name would sanitize to   *)
(* a non-empty key                                                         *)
C24_Witness ==
    /\ ~file_exists
    /\ upc = "returned"
    /\ ret = None
    /\ CanonicalKey # <<>>

(***************************************************************************)
(* Vocabulary of the connection and function properties                    *)
(***************************************************************************)
ListingSucceeded == listed.kind = "buckets"

BucketListed == ListingSucceeded /\ bucket_name \in listed.names

BucketCreated ==
    /\ Len(create_calls) = 1
    /\ create_calls[1].outcome = "created"

(***************************************************************************)
(* C25: test_connection never raises; it attempts create_bucket only when  *)
(* the configured bucket is absent from the listed buckets; it returns     *)
(* True exactly when the listing succeeded and the bucket either existed   *)
(* or was created without error, and False when the listing raises or the  *)
(* bucket creation raises.                                                 *)
(***************************************************************************)
C25_ConnectionTestResult ==
    /\ Len(create_calls) <= 1
    /\ create_calls # <<>> =>
           /\ ListingSucceeded /\ ~BucketListed
           /\ create_calls[1].name = bucket_name
    /\ cpc = "returned" =>
           /\ conn_ret \in {"True", "False"}
           /\ conn_ret = "True" <=>
                  ListingSucceeded /\ (BucketListed \/ BucketCreated)
           /\ listed = Raised => conn_ret = "False"
           /\ ListingSucceeded /\ ~BucketListed => Len(create_calls) = 1
           /\ create_calls # <<>> /\ create_calls[1].outcome = "raise" =>
                  conn_ret = "False"

(* the bucket was missing beside another one and its creation failed *)
C25_Witness ==
    /\ cpc = "returned"
    /\ ListingSucceeded
    /\ listed.names = {"avatars"}
    /\ Len(create_calls) = 1
    /\ create_calls[1].outcome = "raise"
    /\ conn_ret = "False"

(***************************************************************************)
(* Vocabulary of the module-level function's properties                    *)
(***************************************************************************)
FunctionFinished == fpc \in {"returned", "raised"}

CredentialsPresent ==
    /\ env_url \notin {None, EmptyString}
    /\ env_key \notin {None, EmptyString}

(* the number of calls of one operation the function has made *)
CountCalls(op) == Cardinality({i \in DOMAIN fn_calls : fn_calls[i].op = op})

TheUploadCall ==
    [op |-> "upload_audio_to_supabase", file_path |-> arg_path,
     file_name |-> arg_name]

(* without credentials: the credentials error, and nothing was created *)
NoCredentialsFailsFirst ==
    FunctionFinished /\ ~CredentialsPresent =>
        /\ fn_ret = Exception("Supabase credentials not found")
        /\ fn_calls = <<>>

(* every upload call comes after a connection test that returned True *)
UploadOnlyAfterConnectionTest ==
    \A i \in DOMAIN fn_calls :
        fn_calls[i].op = "upload_audio_to_supabase" =>
            /\ \E j \in 1..(i - 1) : fn_calls[j].op = "test_connection"
            /\ conn_ret = "True"

(* a connection test that returned False ends the function with an error   *)
(* and without an upload                                                   *)
ConnectionFailureRaises ==
    FunctionFinished /\ conn_ret = "False" =>
        /\ fn_ret = Exception("Cannot connect to Supabase")
        /\ CountCalls("upload_audio_to_supabase") = 0

(* after a passing connection test: one upload call with the function's    *)
(* own arguments, whose URL is returned, or an error for a falsy URL       *)
UploadOnceAndNeverFalsy ==
    /\ CountCalls("upload_audio_to_supabase") <= 1
    /\ FunctionFinished /\ conn_ret = "True" =>
           /\ CountCalls("upload_audio_to_supabase") = 1
           /\ fn_calls[Len(fn_calls)] = TheUploadCall
    /\ fpc = "returned" => fn_ret = ret /\ fn_ret.kind = "url"
    /\ FunctionFinished /\ upc = "returned" /\ ret \in {None, EmptyString} =>
           /\ fpc = "raised"
           /\ fn_ret = Exception("Khong the upload file audio len Supabase")

(***************************************************************************)
(* C21, as claimed: the module-level upload_audio_to_supabase fails fast   *)
(* in a fixed order: without SUPABASE_URL or SUPABASE_ANON_KEY it raises   *)
(* the credentials error before creating an uploader; otherwise it calls   *)
(* test_connection exactly once before any upload and raises if that       *)
(* returns False; it then calls the upload exactly once with its own       *)
(* (file_path, file_name), returns its URL and raises for a None or empty  *)
(* URL, so it never returns a falsy value.                                 *)
(* Fails: with both credentials set the constructor of the uploader may    *)
(* raise, and then test_connection is not called at all.                   *)
(***************************************************************************)
C21_AlwaysTestsConnection ==
    /\ NoCredentialsFailsFirst
    /\ FunctionFinished /\ CredentialsPresent =>
           CountCalls("test_connection") = 1
    /\ UploadOnlyAfterConnectionTest
    /\ ConnectionFailureRaises
    /\ UploadOnceAndNeverFalsy

(***************************************************************************)
(* C21, amended: the same, where "otherwise" is narrowed to the uploader   *)
(* having been constructed: an error of the constructor leaves the         *)
(* function at once, before test_connection and before any upload.         *)
(***************************************************************************)
C21_FixedOrderFailFast ==
    /\ NoCredentialsFailsFirst
    /\ CountCalls("test_connection") <= 1
    /\ FunctionFinished /\ CredentialsPresent =>
           IF fn_ret = Exception("create_client failed")
           THEN Len(fn_calls) = 1 /\ fn_calls[1].op = "SupabaseUploader"
           ELSE CountCalls("test_connection") = 1
    /\ UploadOnlyAfterConnectionTest
    /\ ConnectionFailureRaises
    /\ UploadOnceAndNeverFalsy

(* the bucket had to be created, the upload went through and its URL was   *)
(* returned                                                                *)
C21_Witness ==
    /\ fpc = "returned"
    /\ Len(fn_calls) = 3
    /\ BucketCreated
    /\ Len(uploads) = 2
    /\ fn_ret = ret

(***************************************************************************)
(* Vocabulary of the storage module's properties                           *)
(***************************************************************************)
(* the connection test is over *)
ConnectionDecided == m3pc \notin {"idle", "called", "testing"}

(* the paths of the files whose upload was called, in order *)
CalledPaths == [k \in DOMAIN m3_calls |-> m3_calls[k].file_path]

(* the paths of the segment files that exist, in the order of the list *)
ExistingSegmentPaths ==
    LET present == SelectSeq(segments, LAMBDA seg : seg.file_path \in files)
    IN  [k \in DOMAIN present |-> present[k].file_path]

(* entry e is a result of the upload call made for path p *)
EntryOfCall(e, p) ==
    \E k \in DOMAIN m3_calls :
        /\ m3_calls[k].file_path = p
        /\ \/ e \in {None, Str("error"), Str("failed")}
           \/ /\ e.kind = "url"
              /\ e.key = sanitize_filename_for_supabase(m3_calls[k].file_name)

SegmentOf(record) ==
    CHOOSE j \in DOMAIN segments :
        segments[j].start_time = record.start_time

C29_MetadataPairedWithOwnUpload ==
    has_uploader /\ m3pc = "returned" =>
        \A k \in DOMAIN metadata :
            /\ metadata[k].file_url = m3_ret[SegmentOf(metadata[k]) + 1]
            /\ EntryOfCall(metadata[k].file_url,
                           segments[SegmentOf(metadata[k])].file_path)

(***************************************************************************)
(* Vocabulary of the pipeline's properties                                 *)
(***************************************************************************)
ProcessAudioFinished == papc \in {"returned", "raised"}

IsPrefix(s, t) == Len(s) <= Len(t) /\ s = SubSeq(t, 1, Len(s))

(* the stages run so far are an initial part of Module 1, Module 2,        *)
(* Module 3, followed by nothing or by the cleanup                         *)
StagesInOrder ==
    LET modules == SelectSeq(pa_stages, LAMBDA stage : stage # "cleanup")
    IN  /\ IsPrefix(modules, <<"module1", "module2", "module3">>)
        /\ \A k \in DOMAIN pa_stages :
               pa_stages[k] = "cleanup" => k = Len(pa_stages)

(* the method ends only after the cleanup, with the result or with the     *)
(* error of the stage that raised                                          *)
CleanupRunsLast ==
    ProcessAudioFinished =>
        /\ pa_stages # <<>>
        /\ pa_stages[Len(pa_stages)] = "cleanup"
        /\ clean_i = Len(CleanupList)
        /\ IF papc = "raised"
           THEN pa_pending # None /\ pa_ret = pa_pending
           ELSE pa_pending = None /\ pa_ret.kind = "PipelineResult"

(* no file Module 1 has created is left *)
TempFilesDeleted ==
    ProcessAudioFinished => created \cap files = {}

(***************************************************************************)
(* C30: process_audio runs diarization, ASR and storage upload strictly    *)
(* in this order and the cleanup last, and every segment file Module 1     *)
(* has created under /tmp/ is deleted once process_audio finishes, whether *)
(* it returns a result or re-raises the error of a stage.                  *)
(* Fails: the files of a Module 1 that raises midway are never looked at   *)
(* by the cleanup, and a failing os.unlink is only logged.                 *)
(***************************************************************************)
C30_CleanupDeletesEverySegmentFile ==
    /\ StagesInOrder
    /\ CleanupRunsLast
    /\ TempFilesDeleted

====
